---- MODULE Spec2Model ----
(***************************************************************************)
(* Model of the dependency-aware task planner (src/task_planner.py), of    *)
(* the level-barrier parallel executor (src/parallel_executor.py), of the  *)
(* task lists of decompose_query_parallel (src/nlp_processor.py) and of    *)
(* the result aggregator (src/aggregator.py).                              *)
(*                                                                         *)
(* Task ids are numbered as create_tasks_from_query and                    *)
(* decompose_query_parallel number them: the i-th task of a list has the   *)
(* id f'T{i}', written i here.  The id 0 ('T0') is an id no task has.       *)
(***************************************************************************)
EXTENDS Integers, Sequences, FiniteSets, TLC

(***************************************************************************)
(* Bounds of the model.                                                    *)
(***************************************************************************)
MaxTasks == 4          \* tasks in one task list
MaxEdges == 2          \* depends_on entries in one task list, all tasks together
MaxCalls == 3          \* build_dag / topological_sort calls on one planner
MaxExecTasks == 3      \* tasks in one task list given to execute_plan
MaxExecEdges == 2      \* depends_on entries in such a list, all tasks together
MaxLevel == 1          \* highest 'level' of a task
MaxProcesses == 3      \* highest num_processes of an executor
MaxRuns == 2           \* execute_plan calls on one executor
MaxRerunTasks == 2     \* tasks in a task list given to a reused executor
MaxFilters == 2        \* filter conditions of one query
MaxAggregations == 2   \* aggregations of one query
MaxPlans == 2          \* create_execution_plan calls on one planner
MaxGroupFields == 2    \* grouping fields found in one query text

VARIABLES
    tasks,        \* TaskPlanner.tasks: the dict, in insertion order
    dag,          \* TaskPlanner.dag: defaultdict(list), id -> dependents
    in_degree,    \* TaskPlanner.in_degree: defaultdict(int)
    sort_status,  \* outcome of the last topological_sort: none/returned/cycle_error
    layers,       \* the layers the last topological_sort returned
    calls,        \* the planner methods called so far, in order
    dequeued,     \* the ids the last topological_sort took from its queue, in order
    query_components  \* the argument of the last create_execution_plan(query) call

VARIABLES
    ex_tasks,          \* the task list given to execute_plan
    data,              \* ParallelExecutor.data
    num_processes,     \* ParallelExecutor.num_processes
    execution_times,   \* ParallelExecutor.execution_times
    task_process_map,  \* ParallelExecutor.task_process_map
    level_times,       \* ParallelExecutor.level_times
    pc,                \* where execute_plan stands
    levels_left,       \* the level ids execute_plan has still to run, in order
    level_id,          \* the level being executed
    current_results,   \* execute_plan's result store
    task_args,         \* execute_level's (input_data, task, idx) tuples
    pool,              \* processes of the open mp.Pool, 0 when none is open
    running,           \* index in task_args -> start time, of the tasks in execution
    results,           \* index in task_args -> the tuple worker_execute_task returned
    clock,             \* time.time()
    total_start,       \* execute_plan's total_start
    level_start,       \* execute_level's level_start
    exception,         \* the exception that left execute_plan, or "none"
    report,            \* the dict execute_plan returned, << >> before
    metrics,           \* the figures print_performance_report computed, << >> before
    invocations,       \* task id -> calls of worker_execute_task in this execute_plan
    returned           \* the reports of the earlier execute_plan calls, as their
                       \* callers hold them

VARIABLES
    aggregated_result  \* ResultAggregator.aggregated_result, << >> for None

planner_vars == <<tasks, dag, in_degree, sort_status, layers, calls, dequeued,
                  query_components>>
exec_vars == <<ex_tasks, data, num_processes, execution_times, task_process_map,
               level_times, pc, levels_left, level_id, current_results, task_args,
               pool, running, results, clock, total_start, level_start, exception,
               report, metrics, invocations, returned>>
aggregator_vars == <<aggregated_result>>
vars == <<planner_vars, exec_vars, aggregator_vars>>

----------------------------------------------------------------------------
(* Helpers on sequences.                                                   *)

Range(s) == {s[i] : i \in DOMAIN s}

RECURSIVE SumLens(_)
SumLens(ss) == IF ss = << >> THEN 0 ELSE Len(Head(ss)) + SumLens(Tail(ss))

----------------------------------------------------------------------------
(* Input task lists.                                                       *)

DepIds == 0..MaxTasks
TaskIds == 1..MaxTasks

\* every depends_on list of at most k entries over the ids
DepSeqs(ids, k) == UNION {[1..m -> ids] : m \in 0..k}

\* the depends_on lists of n tasks holding at most `budget` entries together
RECURSIVE DepLists(_, _, _)
DepLists(ids, n, budget) ==
    IF n = 0 THEN {<< >>}
    ELSE UNION {{Append(l, d) : l \in DepLists(ids, n - 1, budget - Len(d))}
                : d \in DepSeqs(ids, budget)}

\* the task dict of a depends_on list: task i has id i
MkTasks(ds) == [i \in 1..Len(ds) |-> [task_id |-> i, depends_on |-> ds[i]]]

TaskLists == {MkTasks(ds) : ds \in UNION {DepLists(DepIds, n, MaxEdges) : n \in 1..MaxTasks}}

IdsOf(ts) == {ts[i].task_id : i \in DOMAIN ts}

TaskOf(ts, id) == ts[CHOOSE i \in DOMAIN ts : ts[i].task_id = id]

----------------------------------------------------------------------------
(* TaskPlanner.build_dag                                                   *)

\* lines 88-89: every task id gets in-degree 0; other entries are kept
ResetInDegree(ts, deg) == [i \in DepIds |-> IF i \in IdsOf(ts) THEN 0 ELSE deg[i]]

\* edges kept as a set: a second entry for the same dependency adds no edge
RECURSIVE AddDependenciesOnce(_, _, _)
AddDependenciesOnce(task_id, depends_on, st) ==
    IF depends_on = << >> THEN st
    ELSE LET dependency == Head(depends_on)
             st1 == [dag |-> IF task_id \in Range(st.dag[dependency]) THEN st.dag
                             ELSE [st.dag EXCEPT ![dependency] = Append(@, task_id)],
                     in_degree |-> [st.in_degree EXCEPT ![task_id] = @ + 1]]
         IN AddDependenciesOnce(task_id, Tail(depends_on), st1)

\* lines 93-95 for one task: one edge per depends_on entry, in order
RECURSIVE AddDependencies(_, _, _)
AddDependencies(task_id, depends_on, st) ==
    IF depends_on = << >> THEN st
    ELSE LET dependency == Head(depends_on)
             st1 == [dag |-> [st.dag EXCEPT ![dependency] = Append(@, task_id)],
                     in_degree |-> [st.in_degree EXCEPT ![task_id] = @ + 1]]
         IN AddDependencies(task_id, Tail(depends_on), st1)

\* lines 91-95: the tasks in dict order
RECURSIVE AddTasks(_, _)
AddTasks(ts, st) ==
    IF ts = << >> THEN st
    ELSE AddTasks(Tail(ts), AddDependencies(Head(ts).task_id, Head(ts).depends_on, st))

build_dag(ts, g, deg) == AddTasks(ts, [dag |-> g, in_degree |-> ResetInDegree(ts, deg)])

----------------------------------------------------------------------------
(* TaskPlanner.topological_sort                                            *)

\* the ids of in-degree 0, the last of the dict first
RECURSIVE InitialQueueReversed(_, _)
InitialQueueReversed(ts, deg) ==
    IF ts = << >> THEN << >>
    ELSE InitialQueueReversed(Tail(ts), deg)
         \o (IF deg[Head(ts).task_id] = 0 THEN <<Head(ts).task_id>> ELSE << >>)

\* a queue that starts with every id of the dict, whatever its in-degree
RECURSIVE InitialQueueAll(_, _)
InitialQueueAll(ts, deg) ==
    IF ts = << >> THEN << >>
    ELSE <<Head(ts).task_id>> \o InitialQueueAll(Tail(ts), deg)

\* line 102: the ids of in-degree 0, in dict order
RECURSIVE InitialQueue(_, _)
InitialQueue(ts, deg) ==
    IF ts = << >> THEN << >>
    ELSE (IF deg[Head(ts).task_id] = 0 THEN <<Head(ts).task_id>> ELSE << >>)
         \o InitialQueue(Tail(ts), deg)

\* a Release that enqueues a dependent at every decrement, ready or not
RECURSIVE ReleaseUnchecked(_, _)
ReleaseUnchecked(dependents, st) ==
    IF dependents = << >> THEN st
    ELSE LET dependent == Head(dependents)
             deg == [st.in_degree EXCEPT ![dependent] = @ - 1]
         IN ReleaseUnchecked(Tail(dependents),
                    [st EXCEPT !.in_degree = deg, !.queue = Append(@, dependent)])

\* lines 115-118: the dependents of the dequeued task, in adjacency order
RECURSIVE Release(_, _)
Release(dependents, st) ==
    IF dependents = << >> THEN st
    ELSE LET dependent == Head(dependents)
             deg == [st.in_degree EXCEPT ![dependent] = @ - 1]
         IN Release(Tail(dependents),
                    [st EXCEPT !.in_degree = deg,
                               !.queue = IF deg[dependent] = 0
                                         THEN Append(@, dependent) ELSE @])

\* lines 111-118: one iteration of the for loop
Dequeue(g, st) ==
    LET task_id == Head(st.queue)
    IN Release(g[task_id],
               [st EXCEPT !.queue = Tail(@),
                          !.current_layer = Append(@, task_id),
                          !.visited = @ \cup {task_id},
                          !.dequeued = Append(@, task_id)])

\* a FillLayer that drains the queue instead of taking layer_size tasks
RECURSIVE FillLayerGreedy(_, _, _)
FillLayerGreedy(g, st, layer_size) ==
    IF st.queue = << >> THEN st ELSE FillLayerGreedy(g, Dequeue(g, st), layer_size)

\* lines 110-118: layer_size iterations
RECURSIVE FillLayer(_, _, _)
FillLayer(g, st, layer_size) ==
    IF layer_size = 0 THEN st ELSE FillLayer(g, Dequeue(g, st), layer_size - 1)

\* a while loop that closes a layer after every task
RECURSIVE SortLoopSingle(_, _)
SortLoopSingle(g, st) ==
    IF st.queue = << >> THEN st
    ELSE LET filled == FillLayer(g, [st EXCEPT !.current_layer = << >>], 1)
         IN SortLoopSingle(g, [filled EXCEPT !.layers = Append(@, filled.current_layer)])

\* lines 106-121: the while loop
RECURSIVE SortLoop(_, _)
SortLoop(g, st) ==
    IF st.queue = << >> THEN st
    ELSE LET filled == FillLayer(g, [st EXCEPT !.current_layer = << >>], Len(st.queue))
         IN SortLoop(g, [filled EXCEPT !.layers =
                            IF filled.current_layer # << >>
                            THEN Append(@, filled.current_layer) ELSE @])

\* lines 102-126: the final state of the loop and whether the call raises
topological_sort(ts, g, deg) ==
    LET final == SortLoop(g, [queue |-> InitialQueue(ts, deg), layers |-> << >>,
                              visited |-> {}, in_degree |-> deg,
                              current_layer |-> << >>, dequeued |-> << >>])
    IN [raised |-> Cardinality(final.visited) # Len(ts),
        layers |-> final.layers,
        in_degree |-> final.in_degree,
        dequeued |-> final.dequeued]

----------------------------------------------------------------------------
(* The planner as a state machine.                                         *)

PlannerInit ==
    /\ tasks \in TaskLists
    /\ dag = [i \in DepIds |-> << >>]
    /\ in_degree = [i \in DepIds |-> 0]
    /\ sort_status = "none"
    /\ layers = << >>
    /\ calls = << >>
    /\ dequeued = << >>
    /\ query_components = << >>

BuildDag ==
    /\ Len(calls) < MaxCalls
    /\ LET built == build_dag(tasks, dag, in_degree)
       IN /\ dag' = built.dag
          /\ in_degree' = built.in_degree
    /\ calls' = Append(calls, "build_dag")
    /\ UNCHANGED <<tasks, sort_status, layers, dequeued, query_components>>

TopologicalSort ==
    /\ Len(calls) < MaxCalls
    /\ LET sorted == topological_sort(tasks, dag, in_degree)
       IN /\ in_degree' = sorted.in_degree
          /\ sort_status' = IF sorted.raised THEN "cycle_error" ELSE "returned"
          /\ layers' = IF sorted.raised THEN << >> ELSE sorted.layers
          /\ dequeued' = sorted.dequeued
    /\ calls' = Append(calls, "topological_sort")
    /\ UNCHANGED <<tasks, dag, query_components>>

PlannerIdle ==
    /\ tasks = << >>
    /\ dag = [i \in DepIds |-> << >>]
    /\ in_degree = [i \in DepIds |-> 0]
    /\ sort_status = "none"
    /\ layers = << >>
    /\ calls = << >>
    /\ dequeued = << >>
    /\ query_components = << >>

----------------------------------------------------------------------------
(* Values handled by the executor.  A table is known by the source rows it  *)
(* holds and by its form (the source rows, or an aggregate of them); an     *)
(* str is known by its parts.                                               *)

Rows == 1..MaxExecTasks       \* row i is the row the filter of task i rejects
Columns == {"sales"}          \* the columns of the source data

\* a column the source data does not have, one name for the odd task ids and
\* one for the even ones
MissingField(id) == IF id % 2 = 1 THEN "missing" ELSE "absent"

DataFrame(rows, form) == [kind |-> "DataFrame", rows |-> rows, form |-> form, text |-> << >>]
DataFrameGroupBy(rows) == [kind |-> "DataFrameGroupBy", rows |-> rows, form |-> "rows", text |-> << >>]
Str(text) == [kind |-> "str", rows |-> {}, form |-> "", text |-> text]

\* str(e) of the exceptions the operations raise
KeyError(key) == key
AttributeError(attr) ==
    IF attr = "copy" THEN "'str' object has no attribute 'copy'"
    ELSE "'str' object has no attribute 'groupby'"
TypeError == "string indices must be integers"

\* line 166: f"Error: {str(e)}"
ErrorMarker(e) == Str(<<"Error: ", e>>)

IsErrorMarker(v) == v.kind = "str" /\ Len(v.text) >= 1 /\ v.text[1] = "Error: "

Returned(v) == [raised |-> FALSE, value |-> v, exc |-> "none"]
Raised(e) == [raised |-> TRUE, value |-> Str(<< >>), exc |-> e]

\* dicts: a function on the keys it holds
EmptyDict == << >>

\* a store that keeps only what the last level wrote
Replace(dict, other) == other

Put(dict, key, value) ==
    [k \in DOMAIN dict \cup {key} |-> IF k = key THEN value ELSE dict[k]]
Update(dict, other) ==
    [k \in DOMAIN dict \cup DOMAIN other |-> IF k \in DOMAIN other THEN other[k] ELSE dict[k]]

----------------------------------------------------------------------------
(* Task lists given to the executor.                                       *)

NoParams == [conditions |-> << >>, group_by |-> << >>, agg_type |-> "sum", agg_field |-> "sales"]

\* the filter tasks: one condition, on a column of the data or on a missing one
FilterOps(id) ==
    {[NoParams EXCEPT !.conditions = <<[field |-> f, rejects |-> {id}]>>]
        @@ [operation |-> "filter"] : f \in Columns \cup {MissingField(id)}}

OtherOps ==
    {[NoParams EXCEPT !.group_by = <<"sales">>] @@ [operation |-> "group"],
     NoParams @@ [operation |-> "aggregate"],
     [NoParams EXCEPT !.agg_type = "count"] @@ [operation |-> "aggregate"],
     NoParams @@ [operation |-> "fetch"],
     NoParams @@ [operation |-> "rank"]}

\* the operations of task id in a list of n tasks: the longest lists hold filters
OpsFor(id, n) == IF n < MaxExecTasks THEN FilterOps(id) \cup OtherOps ELSE FilterOps(id)

ExecTask(id, level, depends_on, op) ==
    op @@ [task_id |-> id, level |-> level, depends_on |-> depends_on]

ExecTaskListsOf(n) ==
    {[i \in 1..n |-> ExecTask(i, lv[i], ds[i], op[i])] :
        ds \in DepLists(0..n, n, MaxExecEdges),
        lv \in [1..n -> 0..MaxLevel],
        op \in {f \in [1..n -> UNION {OpsFor(i, n) : i \in 1..n}] :
                    \A i \in 1..n : f[i] \in OpsFor(i, n)}}

ExecTaskLists == UNION {ExecTaskListsOf(n) : n \in 0..MaxExecTasks}

----------------------------------------------------------------------------
(* The operations a worker applies (parallel_executor.py, lines 33-129).    *)

\* lines 43-59: the conditions in order; a missing column raises KeyError
RECURSIVE ApplyConditions(_, _)
ApplyConditions(d, conditions) ==
    IF conditions = << >> THEN Returned(d)
    ELSE IF Head(conditions).field \notin Columns THEN Raised(KeyError(Head(conditions).field))
    ELSE ApplyConditions([d EXCEPT !.rows = @ \ Head(conditions).rejects],
                         Tail(conditions))

\* lines 40-61: data.copy() exists on a DataFrame only
execute_filter_task(d, task) ==
    IF d.kind # "DataFrame" THEN Raised(AttributeError("copy"))
    ELSE ApplyConditions(d, task.conditions)

\* lines 71-78
execute_group_task(d, task) ==
    IF task.group_by = << >> THEN Returned(d)
    ELSE IF d.kind # "DataFrame" THEN Raised(AttributeError("groupby"))
    ELSE IF ~(Range(task.group_by) \subseteq Columns)
         THEN Raised(KeyError(CHOOSE c \in Range(task.group_by) : c \notin Columns))
    ELSE Returned(DataFrameGroupBy(d.rows))

\* lines 88-122: len(data) is taken of whatever the input is, data[agg_field]
\* needs a table with that column
execute_aggregate_task(d, task) ==
    IF d.kind = "DataFrameGroupBy"
    THEN IF task.agg_field \in Columns
         THEN Returned(DataFrame(d.rows, task.agg_type)) ELSE Raised(KeyError(task.agg_field))
    ELSE IF task.agg_type = "count" THEN Returned(DataFrame(d.rows, "count"))
    ELSE IF d.kind = "str" THEN Raised(TypeError)
    ELSE IF task.agg_field \in Columns
         THEN Returned(DataFrame(d.rows, task.agg_type)) ELSE Raised(KeyError(task.agg_field))

\* lines 125-129
execute_fetch_task(d, task) == Returned(d)

\* a worker that refuses an operation it does not know
ApplyOperationStrict(d, task) ==
    CASE task.operation = "filter" -> execute_filter_task(d, task)
      [] task.operation = "group" -> execute_group_task(d, task)
      [] task.operation = "aggregate" -> execute_aggregate_task(d, task)
      [] task.operation = "fetch" -> execute_fetch_task(d, task)
      [] OTHER -> Raised("Unknown operation")

\* lines 149-159: the operation of the task applied to its input
ApplyOperation(d, task) ==
    CASE task.operation = "filter" -> execute_filter_task(d, task)
      [] task.operation = "group" -> execute_group_task(d, task)
      [] task.operation = "aggregate" -> execute_aggregate_task(d, task)
      [] task.operation = "fetch" -> execute_fetch_task(d, task)
      [] OTHER -> Returned(d)

\* a worker that lets the exception of the operation out
WorkerResultUncaught(out) == IF out.raised THEN Str(<<out.exc>>) ELSE out.value

\* lines 149-166: the value, or the error marker of the exception caught
WorkerResult(out) == IF out.raised THEN ErrorMarker(out.exc) ELSE out.value

\* a worker that gives up on a task that was not alone while it ran
worker_execute_task_timed(args, start_time, end_time) ==
    [task_id |-> args.task.task_id,
     result |-> IF end_time - start_time > 1 THEN ErrorMarker("timed out")
                ELSE WorkerResult(ApplyOperation(args.input_data, args.task)),
     execution_time |-> end_time - start_time,
     process_id |-> args.idx]

\* lines 143-166: args is (data, task, process_id)
worker_execute_task(args, start_time, end_time) ==
    [task_id |-> args.task.task_id,
     result |-> WorkerResult(ApplyOperation(args.input_data, args.task)),
     execution_time |-> end_time - start_time,
     process_id |-> args.idx]

----------------------------------------------------------------------------
(* ParallelExecutor.execute_plan and execute_level                         *)

RECURSIVE SortedSeq(_)
SortedSeq(S) ==
    IF S = {} THEN << >>
    ELSE LET m == CHOOSE x \in S : \A y \in S : x <= y
         IN <<m>> \o SortedSeq(S \ {m})

\* the keys of the levels dict in the order the tasks introduce them
RECURSIVE InsertionOrder(_)
InsertionOrder(ts) ==
    IF ts = << >> THEN << >>
    ELSE LET rest == InsertionOrder(Tail(ts))
         IN <<Head(ts).level>> \o SelectSeq(rest, LAMBDA l : l # Head(ts).level)

\* lines 260-265, 274: sorted(levels.keys())
SortedLevels(ts) == SortedSeq({ts[i].level : i \in DOMAIN ts})

\* lines 260-265: levels[level], in list order
LevelTasks(ts, level) == SelectSeq(ts, LAMBDA t : t.level = level)

\* an input resolution that hands every task the source data
ResolveInputSource(task, store, source) == Returned(source)

\* lines 213-218: the input of one task, or the KeyError of the lookup
ResolveInput(task, store, source) ==
    IF task.depends_on # << >>
    THEN IF task.depends_on[1] \in DOMAIN store
         THEN Returned(store[task.depends_on[1]]) ELSE Raised("KeyError")
    ELSE Returned(source)

\* tuples that hold the source data for the workers of a pool of several
\* processes, and the resolved input otherwise
TaskArgsPooled(level_tasks, store, source) ==
    [i \in DOMAIN level_tasks |->
        [input_data |-> IF num_processes > 1 /\ Len(level_tasks) > 1 THEN source
                        ELSE ResolveInput(level_tasks[i], store, source).value,
         task |-> level_tasks[i], idx |-> i - 1]]

\* lines 208-220: the tuples of the level, idx from 0
TaskArgs(level_tasks, store, source) ==
    [i \in DOMAIN level_tasks |->
        [input_data |-> ResolveInput(level_tasks[i], store, source).value,
         task |-> level_tasks[i], idx |-> i - 1]]

ResolveRaises(level_tasks, store, source) ==
    \E i \in DOMAIN level_tasks : ResolveInput(level_tasks[i], store, source).raised

\* lines 226-228, 234-237: the returned tuples folded into the dicts, in order
RECURSIVE Collect(_, _)
Collect(tuples, st) ==
    IF tuples = << >> THEN st
    ELSE LET t == Head(tuples)
         IN Collect(Tail(tuples),
                [level_results |-> Put(st.level_results, t.task_id, t.result),
                 execution_times |-> Put(st.execution_times, t.task_id, t.execution_time),
                 task_process_map |-> Put(st.task_process_map, t.task_id, t.process_id)])

\* a pool of the configured size, whatever the number of tasks
PoolSizeConfigured(n) == num_processes

\* line 231: the size of the pool of a level
PoolSize(n) == IF num_processes < n THEN num_processes ELSE n

Min2(a, b) == IF a < b THEN a ELSE b

ExecInit ==
    /\ ex_tasks \in ExecTaskLists
    /\ data = DataFrame(Rows, "rows")
    /\ num_processes \in {1, MaxProcesses}
    /\ execution_times = EmptyDict
    /\ task_process_map = EmptyDict
    /\ level_times = EmptyDict
    /\ pc = "idle"
    /\ levels_left = << >>
    /\ level_id = 0
    /\ current_results = EmptyDict
    /\ task_args = << >>
    /\ pool = 0
    /\ running = EmptyDict
    /\ results = EmptyDict
    /\ clock = 0
    /\ total_start = 0
    /\ level_start = 0
    /\ exception = "none"
    /\ report = << >>
    /\ metrics = << >>
    /\ invocations = EmptyDict
    /\ returned = << >>

\* execute_plan, lines 257-271
StartPlan ==
    /\ pc = "idle"
    /\ total_start' = clock
    /\ levels_left' = SortedLevels(ex_tasks)
    /\ current_results' = EmptyDict
    /\ invocations' = EmptyDict
    /\ pc' = "next_level"
    /\ UNCHANGED <<ex_tasks, data, num_processes, execution_times, task_process_map,
                   level_times, level_id, task_args, pool, running, results, clock,
                   level_start, exception, report, metrics, returned>>

\* a level that opens a pool for a single task too
AlwaysPool(n) == "open_pool"

\* line 223: a single task runs in the calling context
AfterPrepare(n) == IF n = 1 THEN "executing" ELSE "open_pool"

\* execute_plan, lines 274-282, and execute_level, lines 204-223
PrepareLevel ==
    /\ pc = "next_level"
    /\ levels_left # << >>
    /\ LET level_tasks == LevelTasks(ex_tasks, Head(levels_left))
       IN /\ level_id' = Head(levels_left)
          /\ level_start' = clock
          /\ IF ResolveRaises(level_tasks, current_results, data)
             THEN /\ pc' = "raised"
                  /\ exception' = "KeyError"
                  /\ UNCHANGED task_args
             ELSE /\ task_args' = TaskArgs(level_tasks, current_results, data)
                  /\ pc' = AfterPrepare(Len(level_tasks))
                  /\ UNCHANGED exception
    /\ UNCHANGED <<ex_tasks, data, num_processes, execution_times, task_process_map,
                   level_times, levels_left, current_results, pool, running, results,
                   clock, total_start, report, metrics, invocations, returned>>

\* execute_level, line 231: mp.Pool(processes=min(...))
OpenPool ==
    /\ pc = "open_pool"
    /\ pool' = PoolSize(Len(task_args))
    /\ pc' = "executing"
    /\ UNCHANGED <<ex_tasks, data, num_processes, execution_times, task_process_map,
                   level_times, levels_left, level_id, current_results, task_args,
                   running, results, clock, total_start, level_start, exception,
                   report, metrics, invocations, returned>>

\* the tasks of the level are handed out in order (pool.map, chunks of one task);
\* without a pool the calling context runs the only task
Capacity == IF pool = 0 THEN 1 ELSE pool

\* the calls of worker_execute_task for a task id so far
Invoked(counts, id) == IF id \in DOMAIN counts THEN counts[id] ELSE 0

\* worker_execute_task, lines 143-147
StartTask ==
    /\ pc = "executing"
    /\ Cardinality(DOMAIN running) < Capacity
    /\ \E i \in DOMAIN task_args :
          /\ i \notin DOMAIN running /\ i \notin DOMAIN results
          /\ \A j \in 1..(i - 1) : j \in DOMAIN running \/ j \in DOMAIN results
          /\ running' = Put(running, i, clock)
          /\ invocations' = Put(invocations, task_args[i].task.task_id,
                                Invoked(invocations, task_args[i].task.task_id) + 1)
    /\ clock' = clock + 1
    /\ UNCHANGED <<ex_tasks, data, num_processes, execution_times, task_process_map,
                   level_times, pc, levels_left, level_id, current_results, task_args,
                   pool, results, total_start, level_start, exception, report,
                   metrics, returned>>

\* an operation that filters the table it is given in place
InputAfterInPlace(d, task) ==
    IF task.operation = "filter" /\ ~execute_filter_task(d, task).raised
    THEN execute_filter_task(d, task).value ELSE d

\* the table an operation was given, after the operation: the filter works
\* on data.copy() (line 40) and no other operation writes to its input
InputAfter(d, task) == d

\* without a pool the only task of a level works on the object it is given,
\* self.data when its depends_on is empty; the worker of a pool works on a
\* pickled copy
SourceAfter(args, source) ==
    IF pool = 0 /\ args.task.depends_on = << >>
    THEN InputAfter(source, args.task) ELSE source

\* worker_execute_task, lines 149-166
FinishTask ==
    /\ pc = "executing"
    /\ \E i \in DOMAIN running :
          /\ results' = Put(results, i, worker_execute_task(task_args[i], running[i], clock))
          /\ running' = [j \in DOMAIN running \ {i} |-> running[j]]
          /\ data' = SourceAfter(task_args[i], data)
    /\ clock' = clock + 1
    /\ UNCHANGED <<ex_tasks, num_processes, execution_times, task_process_map,
                   level_times, pc, levels_left, level_id, current_results, task_args,
                   pool, total_start, level_start, exception, report, metrics,
                   invocations, returned>>

\* a pool that is left open when its level is done
KeepPool(p) == p

\* line 231: leaving the with block ends the pool
ClosePool(p) == 0

\* lines 299-301: a report holds the executor's own execution_times,
\* task_process_map and level_times dicts, so it shows what they hold now
Aliased(reports, times, process_map, levels) ==
    [k \in DOMAIN reports |->
        [reports[k] EXCEPT !.execution_times = times,
                           !.task_process_map = process_map,
                           !.level_times = levels]]

\* execute_level, lines 225-242, and execute_plan, lines 284-287
FinishLevel ==
    /\ pc = "executing"
    /\ DOMAIN results = DOMAIN task_args
    /\ LET collected == Collect([i \in DOMAIN task_args |-> results[i]],
                                [level_results |-> EmptyDict,
                                 execution_times |-> execution_times,
                                 task_process_map |-> task_process_map])
       IN /\ execution_times' = collected.execution_times
          /\ task_process_map' = collected.task_process_map
          /\ current_results' = Update(current_results, collected.level_results)
    /\ level_times' = Put(level_times, level_id, clock - level_start)
    /\ pool' = ClosePool(pool)
    /\ returned' = Aliased(returned, execution_times', task_process_map', level_times')
    /\ task_args' = << >>
    /\ results' = EmptyDict
    /\ levels_left' = Tail(levels_left)
    /\ pc' = "next_level"
    /\ UNCHANGED <<ex_tasks, data, num_processes, level_id, running, clock,
                   total_start, level_start, exception, report, metrics, invocations>>

\* final results that are the whole result store
AllResults(ts, store) == store

\* lines 291-296: the results of the tasks of the last level
FinalResults(ts, store) ==
    LET final_level == CHOOSE l \in {ts[i].level : i \in DOMAIN ts} :
                            \A i \in DOMAIN ts : ts[i].level <= l
        final_tasks == LevelTasks(ts, final_level)
    IN [id \in {final_tasks[i].task_id : i \in DOMAIN final_tasks} |-> store[id]]

\* execute_plan, lines 289-305; max() of no level raises ValueError
ReturnReport ==
    /\ pc = "next_level"
    /\ levels_left = << >>
    /\ IF ex_tasks = << >>
       THEN /\ pc' = "raised"
            /\ exception' = "ValueError"
            /\ UNCHANGED report
       ELSE /\ pc' = "done"
            /\ LET final_results == FinalResults(ex_tasks, current_results)
               IN report' =
                    [final_result |-> IF Cardinality(DOMAIN final_results) = 1
                                      THEN final_results[CHOOSE id \in DOMAIN final_results : TRUE]
                                      ELSE final_results,
                     final_results |-> final_results,
                     all_results |-> current_results,
                     execution_times |-> execution_times,
                     level_times |-> level_times,
                     task_process_map |-> task_process_map,
                     total_execution_time |-> clock - total_start,
                     num_processes_used |-> num_processes,
                     total_tasks |-> Len(ex_tasks)]
            /\ UNCHANGED exception
    /\ UNCHANGED <<ex_tasks, data, num_processes, execution_times, task_process_map,
                   level_times, levels_left, level_id, current_results, task_args,
                   pool, running, results, clock, total_start, level_start, metrics,
                   invocations, returned>>

\* rationals, for the quotients of the report
Rat(n, d) == [num |-> n, den |-> d]
RatEq(a, b) == a.num * b.den = b.num * a.den
RatDiv(a, k) == Rat(a.num, a.den * k)
RatMul(a, k) == Rat(a.num * k, a.den)

\* line 330: sum(results['execution_times'].values())
RECURSIVE SumValues(_)
SumValues(dict) ==
    IF DOMAIN dict = {} THEN 0
    ELSE LET k == CHOOSE x \in DOMAIN dict : TRUE
         IN dict[k] + SumValues([j \in DOMAIN dict \ {k} |-> dict[j]])

\* line 331
Speedup(sequential_time, total_execution_time) == Rat(sequential_time, total_execution_time)

\* an efficiency given as a fraction of 1
EfficiencyFraction(speedup, num_processes_used) == RatDiv(speedup, num_processes_used)

\* line 332: a percentage
Efficiency(speedup, num_processes_used) == RatMul(RatDiv(speedup, num_processes_used), 100)

\* print_performance_report, lines 329-332, on the report of execute_plan
PrintPerformanceReport ==
    /\ pc = "done"
    /\ IF report.total_execution_time = 0
       THEN /\ pc' = "raised"
            /\ exception' = "ZeroDivisionError"
            /\ UNCHANGED metrics
       ELSE /\ pc' = "reported"
            /\ LET sequential_time == SumValues(report.execution_times)
                   speedup == Speedup(sequential_time, report.total_execution_time)
               IN metrics' = [sequential_time |-> sequential_time,
                              speedup |-> speedup,
                              efficiency |-> Efficiency(speedup, report.num_processes_used)]
            /\ UNCHANGED exception
    /\ UNCHANGED <<ex_tasks, data, num_processes, execution_times, task_process_map,
                   level_times, levels_left, level_id, current_results, task_args,
                   pool, running, results, clock, total_start, level_start, report,
                   invocations, returned>>

ExecIdle ==
    /\ ex_tasks = << >>
    /\ data = DataFrame(Rows, "rows")
    /\ num_processes = 1
    /\ execution_times = EmptyDict
    /\ task_process_map = EmptyDict
    /\ level_times = EmptyDict
    /\ pc = "idle"
    /\ levels_left = << >>
    /\ level_id = 0
    /\ current_results = EmptyDict
    /\ task_args = << >>
    /\ pool = 0
    /\ running = EmptyDict
    /\ results = EmptyDict
    /\ clock = 0
    /\ total_start = 0
    /\ level_start = 0
    /\ exception = "none"
    /\ report = << >>
    /\ metrics = << >>
    /\ invocations = EmptyDict
    /\ returned = << >>

----------------------------------------------------------------------------
(* ResultAggregator (aggregator.py).                                       *)

\* lines 23-24
AggregatorInit == aggregated_result = << >>

\* final_result is the dict of the final results when the last level held
\* several tasks (parallel_executor.py, lines 294-296), a single value
\* otherwise
IsDict(execution_results) == Cardinality(DOMAIN execution_results.final_results) # 1

\* str(final_result): a str is its own str, any other object is shown by the
\* name of its type
StrOf(v) == IF v.kind = "str" THEN v ELSE Str(<<"<", v.kind, ">">>)

\* lines 56-98, what the summary reads of it
format_dataframe_result(df) ==
    [type |-> "dataframe", value |-> df, total_rows |-> Cardinality(df.rows)]

\* lines 131-140: no result of the executor is an int or a float
FormatResult(execution_results) ==
    LET final_result == execution_results.final_result
    IN IF IsDict(execution_results)
       THEN [type |-> "other", value |-> Str(<<"<", "dict", ">">>), total_rows |-> 0]
       ELSE IF final_result.kind = "DataFrame" THEN format_dataframe_result(final_result)
       ELSE [type |-> "other", value |-> StrOf(final_result), total_rows |-> 0]

\* an aggregator that reports an error-valued final result as a failure
aggregate_and_format_strict(execution_results) ==
    [result |-> FormatResult(execution_results),
     execution_metadata |->
         [total_execution_time |-> execution_results.total_execution_time,
          num_processes_used |-> execution_results.num_processes_used,
          task_execution_times |-> execution_results.execution_times],
     status |-> IF ~IsDict(execution_results)
                   /\ IsErrorMarker(execution_results.final_result)
                THEN "error" ELSE "success"]

\* lines 129-158; the times are whole ticks of the clock, which round(t, 4)
\* leaves as they are
aggregate_and_format(execution_results) ==
    [result |-> FormatResult(execution_results),
     execution_metadata |->
         [total_execution_time |-> execution_results.total_execution_time,
          num_processes_used |-> execution_results.num_processes_used,
          task_execution_times |-> execution_results.execution_times],
     status |-> "success"]

\* mainflow.py, lines 98-102: the report of execute_plan is given to a new
\* ResultAggregator
AggregateAndFormat ==
    /\ pc \in {"done", "reported"}
    /\ aggregated_result = << >>
    /\ aggregated_result' = aggregate_and_format(report)
    /\ UNCHANGED <<planner_vars, exec_vars>>

----------------------------------------------------------------------------
(* Specifications: the planner alone, and one execute_plan run.            *)

Init == PlannerInit /\ ExecIdle /\ AggregatorInit

Next ==
    \/ BuildDag /\ UNCHANGED <<exec_vars, aggregator_vars>>
    \/ TopologicalSort /\ UNCHANGED <<exec_vars, aggregator_vars>>

Spec == Init /\ [][Next]_vars

InitExec == PlannerIdle /\ ExecInit /\ AggregatorInit

NextExec ==
    \/ StartPlan /\ UNCHANGED <<planner_vars, aggregator_vars>>
    \/ PrepareLevel /\ UNCHANGED <<planner_vars, aggregator_vars>>
    \/ OpenPool /\ UNCHANGED <<planner_vars, aggregator_vars>>
    \/ StartTask /\ UNCHANGED <<planner_vars, aggregator_vars>>
    \/ FinishTask /\ UNCHANGED <<planner_vars, aggregator_vars>>
    \/ FinishLevel /\ UNCHANGED <<planner_vars, aggregator_vars>>
    \/ ReturnReport /\ UNCHANGED <<planner_vars, aggregator_vars>>
    \/ PrintPerformanceReport /\ UNCHANGED <<planner_vars, aggregator_vars>>

SpecExec == InitExec /\ [][NextExec]_vars

\* one execute_plan run and the aggregation of its report
NextFlow ==
    \/ NextExec
    \/ AggregateAndFormat

SpecFlow == InitExec /\ [][NextFlow]_vars

\* every operation invocation terminates and the calling process and the
\* workers of the pool are scheduled: a step that can be taken is taken
SpecExecFair == SpecExec /\ WF_vars(NextExec)

----------------------------------------------------------------------------
(* One executor that serves several execute_plan calls.                    *)

\* the task lists of the calls: filters of the source data, in any levels
RerunTaskLists ==
    UNION {{[i \in 1..n |->
                ExecTask(i, lv[i], << >>,
                         [NoParams EXCEPT !.conditions = <<[field |-> "sales", rejects |-> {i}]>>]
                             @@ [operation |-> "filter"])] :
                lv \in [1..n -> 0..MaxLevel]} : n \in 1..MaxRerunTasks}

\* the caller keeps the report and calls execute_plan again, lines 244-257;
\* the dicts of __init__ (lines 185-188) are not set up again
NextCall ==
    /\ pc \in {"done", "reported"}
    /\ Len(returned) < MaxRuns - 1
    /\ ex_tasks' \in RerunTaskLists
    /\ returned' = Append(returned, report)
    /\ report' = << >>
    /\ metrics' = << >>
    /\ pc' = "idle"
    /\ UNCHANGED <<data, num_processes, execution_times, task_process_map,
                   level_times, levels_left, level_id, current_results, task_args,
                   pool, running, results, clock, total_start, level_start, exception,
                   invocations>>

InitRerun == ex_tasks \in RerunTaskLists /\ PlannerIdle /\ ExecInit /\ AggregatorInit

NextRerun ==
    \/ StartPlan /\ UNCHANGED <<planner_vars, aggregator_vars>>
    \/ PrepareLevel /\ UNCHANGED <<planner_vars, aggregator_vars>>
    \/ OpenPool /\ UNCHANGED <<planner_vars, aggregator_vars>>
    \/ StartTask /\ UNCHANGED <<planner_vars, aggregator_vars>>
    \/ FinishTask /\ UNCHANGED <<planner_vars, aggregator_vars>>
    \/ FinishLevel /\ UNCHANGED <<planner_vars, aggregator_vars>>
    \/ ReturnReport /\ UNCHANGED <<planner_vars, aggregator_vars>>
    \/ PrintPerformanceReport /\ UNCHANGED <<planner_vars, aggregator_vars>>
    \/ NextCall /\ UNCHANGED <<planner_vars, aggregator_vars>>

SpecRerun == InitRerun /\ [][NextRerun]_vars

----------------------------------------------------------------------------
(* The pipeline of mainflow.py: plan on a fresh planner, then execute.      *)

\* TaskPlanner.create_execution_plan, lines 128-160, on the tasks of the
\* planner: build_dag, topological_sort, then the plan dict; max() of no
\* layer raises ValueError (line 157)
CreateExecutionPlan ==
    /\ calls = << >>
    /\ LET built == build_dag(tasks, dag, in_degree)
           sorted == topological_sort(tasks, built.dag, built.in_degree)
       IN /\ dag' = built.dag
          /\ in_degree' = sorted.in_degree
          /\ sort_status' = IF sorted.raised THEN "cycle_error"
                            ELSE IF sorted.layers = << >> THEN "value_error"
                            ELSE "returned"
          /\ layers' = IF sorted.raised THEN << >> ELSE sorted.layers
          /\ dequeued' = sorted.dequeued
    /\ calls' = <<"build_dag", "topological_sort">>
    /\ UNCHANGED <<tasks, query_components>>

\* a script that goes on to the execution whatever the planner did
MayExecuteAlways(status) == status # "none"

\* mainflow.py, lines 51-75: an exception of create_execution_plan ends the
\* script, the lines after it run when it returned
MayExecute(status) == status = "returned"

\* mainflow.py, lines 74-75: execute_plan is given the plan dict, not a task
\* list; iterating it yields its keys and task.get (line 262) raises
\* AttributeError on the first of them
ExecutePlanOnPlan ==
    /\ MayExecute(sort_status)
    /\ pc = "idle"
    /\ num_processes' \in {1, 2, 4}
    /\ total_start' = clock
    /\ pc' = "raised"
    /\ exception' = "AttributeError"
    /\ UNCHANGED <<ex_tasks, data, execution_times, task_process_map, level_times,
                   levels_left, level_id, current_results, task_args, pool, running,
                   results, clock, level_start, report, metrics, invocations,
                   returned>>

NextPipeline ==
    \/ CreateExecutionPlan /\ UNCHANGED <<exec_vars, aggregator_vars>>
    \/ ExecutePlanOnPlan /\ UNCHANGED <<planner_vars, aggregator_vars>>

SpecPipeline == Init /\ [][NextPipeline]_vars

----------------------------------------------------------------------------
(* One planner that serves several create_execution_plan calls, and the     *)
(* execution of the tasks of its plan.                                      *)

\* query_components: the k-th filter condition rejects row k; the query
\* groups by the column of the data or not at all
Condition(k) == [field |-> "sales", rejects |-> {k}]
Aggregation(k) == [type |-> IF k = 1 THEN "sum" ELSE "count", field |-> "sales"]

NumTasks(q) ==
    Len(q.filters) + (IF q.groupings # << >> THEN 1 ELSE 0) + Len(q.aggregations)

QueryComponents ==
    {q \in [filters : {[k \in 1..n |-> Condition(k)] : n \in 0..MaxFilters},
            groupings : {<< >>, <<"sales">>},
            aggregations : {[k \in 1..n |-> Aggregation(k)] : n \in 0..MaxAggregations}] :
        NumTasks(q) <= MaxTasks}

\* a task dict of the planner: no 'level' key
PlanTask(id, depends_on, op) == op @@ [task_id |-> id, depends_on |-> depends_on]

\* lines 34-42: one filter task per condition, ids from 1
filter_task_ids(q) == [i \in 1..Len(q.filters) |-> i]

FilterTasks(q) ==
    [i \in 1..Len(q.filters) |->
        PlanTask(i, << >>, [NoParams EXCEPT !.conditions = <<q.filters[i]>>]
                               @@ [operation |-> "filter"])]

\* lines 45-53: the id of the group task, 0 (None) when there is none
group_task_id(q) == IF q.groupings # << >> THEN Len(q.filters) + 1 ELSE 0

GroupTasks(q) ==
    IF q.groupings # << >>
    THEN <<PlanTask(group_task_id(q), filter_task_ids(q),
                    [NoParams EXCEPT !.group_by = q.groupings] @@ [operation |-> "group"])>>
    ELSE << >>

\* aggregations that wait for the filters as well as for the group task
AggregateDependsOnAll(q) ==
    filter_task_ids(q) \o (IF group_task_id(q) # 0 THEN <<group_task_id(q)>> ELSE << >>)

\* lines 58-63
AggregateDependsOn(q) ==
    IF group_task_id(q) # 0 THEN <<group_task_id(q)>> ELSE filter_task_ids(q)

\* lines 56-72: one aggregate task per aggregation, after the other ids
AggregateTasks(q) ==
    LET first == Len(q.filters) + Len(GroupTasks(q))
    IN [k \in 1..Len(q.aggregations) |->
           PlanTask(first + k, AggregateDependsOn(q),
                    [NoParams EXCEPT !.agg_type = q.aggregations[k].type,
                                     !.agg_field = q.aggregations[k].field]
                        @@ [operation |-> "aggregate"])]

\* a planner that leaves an empty task list empty
DefaultFetchNone(ts) == ts

\* lines 75-81
DefaultFetch(ts) ==
    IF ts = << >> THEN <<PlanTask(1, << >>, NoParams @@ [operation |-> "fetch"])>> ELSE ts

\* lines 21-84
create_tasks_from_query(q) == DefaultFetch(FilterTasks(q) \o GroupTasks(q) \o AggregateTasks(q))

\* lines 128-160 on a planner that may have served calls before: the new
\* tasks replace self.tasks, self.dag and self.in_degree are the ones left
\* by the earlier calls
create_execution_plan(q) ==
    /\ ex_tasks = << >>
    /\ Len(calls) < 2 * MaxPlans
    /\ query_components' = q
    /\ LET ts == create_tasks_from_query(q)
           built == build_dag(ts, dag, in_degree)
           sorted == topological_sort(ts, built.dag, built.in_degree)
       IN /\ tasks' = ts
          /\ dag' = built.dag
          /\ in_degree' = sorted.in_degree
          /\ sort_status' = IF sorted.raised THEN "cycle_error"
                            ELSE IF sorted.layers = << >> THEN "value_error"
                            ELSE "returned"
          /\ layers' = IF sorted.raised THEN << >> ELSE sorted.layers
          /\ dequeued' = sorted.dequeued
    /\ calls' = calls \o <<"build_dag", "topological_sort">>

\* the caller builds a ParallelExecutor (lines 175-188) and gives it the
\* 'all_tasks' of the plan (task_planner.py, line 159); execute_plan reads
\* the level of a task with task.get('level', 0) (line 262)
ExecuteAllTasks ==
    /\ sort_status = "returned"
    /\ ex_tasks = << >>
    /\ pc = "idle"
    /\ ex_tasks' = [i \in DOMAIN tasks |-> tasks[i] @@ [level |-> 0]]
    /\ num_processes' \in {1, MaxProcesses}
    /\ UNCHANGED <<data, execution_times, task_process_map, level_times, pc,
                   levels_left, level_id, current_results, task_args, pool, running,
                   results, clock, total_start, level_start, exception, report,
                   metrics, invocations, returned>>

InitPlans == PlannerIdle /\ ExecIdle /\ AggregatorInit

NextPlans ==
    \/ (\E q \in QueryComponents : create_execution_plan(q)) /\ UNCHANGED <<exec_vars, aggregator_vars>>
    \/ ExecuteAllTasks /\ UNCHANGED <<planner_vars, aggregator_vars>>
    \/ ex_tasks # << >> /\ StartPlan /\ UNCHANGED <<planner_vars, aggregator_vars>>
    \/ PrepareLevel /\ UNCHANGED <<planner_vars, aggregator_vars>>
    \/ OpenPool /\ UNCHANGED <<planner_vars, aggregator_vars>>
    \/ StartTask /\ UNCHANGED <<planner_vars, aggregator_vars>>
    \/ FinishTask /\ UNCHANGED <<planner_vars, aggregator_vars>>
    \/ FinishLevel /\ UNCHANGED <<planner_vars, aggregator_vars>>
    \/ ReturnReport /\ UNCHANGED <<planner_vars, aggregator_vars>>

SpecPlans == InitPlans /\ [][NextPlans]_vars

----------------------------------------------------------------------------
(* The path of app.py: the task list of decompose_query_parallel, executed. *)

\* what the extract_* methods found in the query text (nlp_processor.py,
\* lines 189, 202, 215)
Extracted ==
    [conditions : {[k \in 1..n |-> Condition(k)] : n \in 0..MaxFilters},
     group_fields : {[k \in 1..n |-> "sales"] : n \in 0..MaxGroupFields},
     aggregations : {[k \in 1..n |-> Aggregation(k)] : n \in 0..MaxAggregations}]

\* a decomposition that puts every task on level 0
LevelZero(operation) == 0

\* the 'level' the decomposition writes into a task, lines 196, 209, 223, 234
LevelOf(operation) ==
    CASE operation = "filter" -> 0
      [] operation = "group" -> 1
      [] operation = "aggregate" -> 2
      [] OTHER -> 0

\* lines 183-235
decompose_query_parallel(x) ==
    LET nf == Len(x.conditions)
        ng == Len(x.group_fields)
        filter_ids == [i \in 1..nf |-> i]
        group_ids == [k \in 1..ng |-> nf + k]
        filters == [i \in 1..nf |->
                      ExecTask(i, LevelOf("filter"), << >>,
                               [NoParams EXCEPT !.conditions = <<x.conditions[i]>>]
                                   @@ [operation |-> "filter"])]
        groups == [k \in 1..ng |->
                      ExecTask(nf + k, LevelOf("group"), filter_ids,
                               [NoParams EXCEPT !.group_by = <<x.group_fields[k]>>]
                                   @@ [operation |-> "group"])]
        aggregates == [k \in 1..Len(x.aggregations) |->
                      ExecTask(nf + ng + k, LevelOf("aggregate"),
                               IF group_ids # << >> THEN group_ids ELSE filter_ids,
                               [NoParams EXCEPT !.agg_type = x.aggregations[k].type,
                                                !.agg_field = x.aggregations[k].field]
                                   @@ [operation |-> "aggregate"])]
        found == filters \o groups \o aggregates
    IN IF found = << >>
       THEN <<ExecTask(1, LevelOf("fetch"), << >>, NoParams @@ [operation |-> "fetch"])>>
       ELSE found

\* app.py, lines 170-176: decompose the query, build an executor and give it
\* decomposed['tasks']
ProcessQuery ==
    /\ ex_tasks = << >>
    /\ pc = "idle"
    /\ \E x \in Extracted : ex_tasks' = decompose_query_parallel(x)
    /\ num_processes' \in {1, MaxProcesses}
    /\ UNCHANGED <<data, execution_times, task_process_map, level_times, pc,
                   levels_left, level_id, current_results, task_args, pool, running,
                   results, clock, total_start, level_start, exception, report,
                   metrics, invocations, returned>>

NextQuery ==
    \/ ProcessQuery /\ UNCHANGED <<planner_vars, aggregator_vars>>
    \/ ex_tasks # << >> /\ StartPlan /\ UNCHANGED <<planner_vars, aggregator_vars>>
    \/ PrepareLevel /\ UNCHANGED <<planner_vars, aggregator_vars>>
    \/ OpenPool /\ UNCHANGED <<planner_vars, aggregator_vars>>
    \/ StartTask /\ UNCHANGED <<planner_vars, aggregator_vars>>
    \/ FinishTask /\ UNCHANGED <<planner_vars, aggregator_vars>>
    \/ FinishLevel /\ UNCHANGED <<planner_vars, aggregator_vars>>
    \/ ReturnReport /\ UNCHANGED <<planner_vars, aggregator_vars>>

InitQuery == PlannerIdle /\ ExecIdle /\ AggregatorInit

SpecQuery == InitQuery /\ [][NextQuery]_vars

----------------------------------------------------------------------------
(* Properties of the planner.                                              *)

\* every depends_on id names a task of the list
KnownDeps(ts) == \A i \in DOMAIN ts : Range(ts[i].depends_on) \subseteq IdsOf(ts)

\* the tasks of the list that task `id` names in its depends_on
DirectDeps(ts, id) == Range(TaskOf(ts, id).depends_on) \cap IdsOf(ts)

\* the tasks reached from the set S along depends_on in at most k more steps
RECURSIVE Closure(_, _, _)
Closure(ts, S, k) ==
    IF k = 0 THEN S
    ELSE Closure(ts, S \cup UNION {DirectDeps(ts, id) : id \in S}, k - 1)

TransDeps(ts, id) == Closure(ts, DirectDeps(ts, id), Len(ts))

HasCycle(ts) == \E id \in IdsOf(ts) : id \in TransDeps(ts, id)

LastCall == IF calls = << >> THEN "none" ELSE calls[Len(calls)]

FreshPlan == calls = <<"build_dag", "topological_sort">>

RECURSIVE Flatten(_)
Flatten(ls) == IF ls = << >> THEN << >> ELSE Head(ls) \o Flatten(Tail(ls))

\* C1: after build_dag and topological_sort on a fresh planner, for an acyclic
\* task list with known dependencies, every dependency of every task of
\* layer k lies in a layer of index strictly less than k.
C1_DependenciesInEarlierLayers ==
    (FreshPlan /\ KnownDeps(tasks) /\ ~HasCycle(tasks)) =>
        /\ sort_status = "returned"
        /\ \A k \in DOMAIN layers : \A t \in Range(layers[k]) :
              \A d \in Range(TaskOf(tasks, t).depends_on) :
                  \E j \in 1..(k - 1) : d \in Range(layers[j])

C1_Witness ==
    /\ FreshPlan /\ KnownDeps(tasks) /\ ~HasCycle(tasks)
    /\ Len(layers) >= 2
    /\ \E i \in DOMAIN tasks : Cardinality(Range(tasks[i].depends_on)) = 2

\* C2: for an acyclic task list with known dependencies, the layers that
\* topological_sort returns hold every task id exactly once and no other id,
\* whatever calls the planner has served before; after build_dag on a fresh
\* planner the call does return layers.
C2_LayersPartitionTasks ==
    (LastCall = "topological_sort" /\ KnownDeps(tasks) /\ ~HasCycle(tasks)) =>
        /\ FreshPlan => sort_status = "returned"
        /\ sort_status = "returned" =>
              /\ Len(Flatten(layers)) = Len(tasks)
              /\ Range(Flatten(layers)) = IdsOf(tasks)

C2_Witness ==
    /\ FreshPlan /\ KnownDeps(tasks) /\ ~HasCycle(tasks)
    /\ sort_status = "returned"
    /\ Len(tasks) >= 3 /\ Len(layers) >= 2
    /\ \E i \in DOMAIN tasks : Len(tasks[i].depends_on) = 2
                               /\ Cardinality(Range(tasks[i].depends_on)) = 1

\* C3: for every task list that contains a dependency cycle, topological_sort
\* raises the cycle error and returns no layers.
C3_CycleAlwaysRaises ==
    (LastCall = "topological_sort" /\ calls[1] = "build_dag" /\ HasCycle(tasks)) =>
        (sort_status = "cycle_error" /\ layers = << >>)

\* C4: for every task list with a depends_on id that names no task, build_dag
\* followed by topological_sort fails with an UnknownDependency error, which
\* is not the cycle error, and returns no plan.
C4_UnknownDependencyRaised ==
    (FreshPlan /\ ~KnownDeps(tasks)) =>
        (sort_status = "unknown_dependency" /\ layers = << >>)

\* the layer of a planned task (from 1) and its place in the whole plan
LayerOf(id) == CHOOSE k \in DOMAIN layers : id \in Range(layers[k])

PlaceOf(id) == CHOOSE p \in DOMAIN Flatten(layers) : Flatten(layers)[p] = id

\* the place of a task in the input task list
IndexOf(ts, id) == CHOOSE i \in DOMAIN ts : ts[i].task_id = id

MaxOf(S) == CHOOSE x \in S : \A y \in S : y <= x

Count(seq, x) == Cardinality({i \in DOMAIN seq : seq[i] = x})

PlannedAcyclic == FreshPlan /\ KnownDeps(tasks) /\ ~HasCycle(tasks)

ReleasedAt(id) == MaxOf({PlaceOf(d) : d \in Range(TaskOf(tasks, id).depends_on)})

C28_BuildDagCountsEntries ==
    calls = <<"build_dag">> =>
        /\ \A i \in DOMAIN tasks :
              in_degree[tasks[i].task_id] = Len(tasks[i].depends_on)
        /\ \A d \in DepIds :
              /\ Range(dag[d]) \subseteq IdsOf(tasks)
              /\ \A i \in DOMAIN tasks :
                    Count(dag[d], tasks[i].task_id) = Count(tasks[i].depends_on, d)

C28_Witness ==
    /\ calls = <<"build_dag">>
    /\ \E i \in DOMAIN tasks : \E d \in DepIds :
          /\ Count(tasks[i].depends_on, d) = 2
          /\ Len(dag[d]) = 2
    /\ Len(tasks) >= 2

\* C32: topological_sort leaves the in-degree counts and the adjacency as
\* they were, and a second call after one build_dag returns the layers of
\* the first call.
C32_SortIsRepeatable ==
    [][calls' = Append(calls, "topological_sort") =>
          /\ in_degree' = in_degree
          /\ dag' = dag
          /\ calls = <<"build_dag", "topological_sort">> =>
                (sort_status' = sort_status /\ layers' = layers)]_vars

\* C33: every topological_sort call ends, by returning or by raising, for
\* every task list and whatever the planner served before; it takes every
\* task id from the queue at most once and no other id, so it makes at most
\* as many dequeue steps as there are tasks.
C33_SortDequeuesEachTaskOnce ==
    LastCall = "topological_sort" =>
        /\ sort_status \in {"returned", "cycle_error"}
        /\ Len(dequeued) <= Len(tasks)
        /\ Range(dequeued) \subseteq IdsOf(tasks)
        /\ \A a, b \in DOMAIN dequeued : dequeued[a] = dequeued[b] => a = b
        /\ sort_status = "returned" <=> Len(dequeued) = Len(tasks)

\* a list with a cycle, sorted after two build_dag calls: every edge is
\* released twice and the task behind it is dequeued once
C33_Witness ==
    /\ calls = <<"build_dag", "build_dag", "topological_sort">>
    /\ HasCycle(tasks)
    /\ Len(dequeued) >= 2
    /\ \E d \in DOMAIN dag : \E a, b \in DOMAIN dag[d] :
          a # b /\ dag[d][a] = dag[d][b] /\ dag[d][a] \in Range(dequeued)

\* what topological_sort gives for a task list on a planner as __init__
\* leaves it (lines 16-19), after one build_dag
FreshSort(ts) ==
    LET built == build_dag(ts, [i \in DepIds |-> << >>], [i \in DepIds |-> 0])
    IN topological_sort(ts, built.dag, built.in_degree)

DependenciesInEarlierLayers ==
    \A k \in DOMAIN layers : \A t \in Range(layers[k]) :
        \A d \in Range(TaskOf(tasks, t).depends_on) :
            \E j \in 1..(k - 1) : d \in Range(layers[j])

\* C31: after any sequence of create_execution_plan calls on one planner, the
\* layers of the latest call are the layers a freshly constructed planner
\* returns for the same query components, and every dependency of a task
\* lies in a strictly earlier layer.
C31_PlanIndependentOfHistory ==
    calls # << >> =>
        /\ sort_status = "returned"
        /\ layers = FreshSort(tasks).layers
        /\ DependenciesInEarlierLayers

\* the tasks of the planner with the given operation, in dict order
TasksOf(operation) == SelectSeq(tasks, LAMBDA t : t.operation = operation)

IdSeq(ts) == [i \in DOMAIN ts |-> ts[i].task_id]

\* C35: create_tasks_from_query gives one filter task per condition, without
\* dependency; a group task when the query groups, and then one only, which
\* depends on all filter tasks; one aggregate task per aggregation, which
\* depends on the group task if there is one, otherwise on all filter tasks,
\* otherwise on nothing; the task list has no cycle, create_execution_plan
\* returns a plan for it and the plan has at most three layers.
C35_TasksFollowQueryShape ==
    calls # << >> =>
        LET q == query_components
            filters == TasksOf("filter")
            groups == TasksOf("group")
            aggregates == TasksOf("aggregate")
        IN /\ Len(filters) = Len(q.filters)
           /\ \A k \in DOMAIN filters :
                 filters[k].conditions = <<q.filters[k]>> /\ filters[k].depends_on = << >>
           /\ Len(groups) = (IF q.groupings # << >> THEN 1 ELSE 0)
           /\ \A k \in DOMAIN groups :
                 groups[k].group_by = q.groupings /\ groups[k].depends_on = IdSeq(filters)
           /\ Len(aggregates) = Len(q.aggregations)
           /\ \A k \in DOMAIN aggregates :
                 /\ aggregates[k].agg_type = q.aggregations[k].type
                 /\ aggregates[k].depends_on =
                        (IF groups # << >> THEN IdSeq(groups) ELSE IdSeq(filters))
           /\ Len(tasks) = Len(filters) + Len(groups) + Len(aggregates)
                             + Len(TasksOf("fetch"))
           /\ \A i \in DOMAIN tasks : tasks[i].task_id = i
           /\ KnownDeps(tasks) /\ ~HasCycle(tasks)
           /\ sort_status = "returned" /\ Len(layers) <= 3
           /\ FreshPlan => DependenciesInEarlierLayers

\* two filters, the group task behind both and an aggregation behind it
C35_Witness ==
    /\ FreshPlan
    /\ Len(TasksOf("filter")) = 2 /\ Len(TasksOf("group")) = 1
    /\ Len(TasksOf("aggregate")) = 1
    /\ layers = << <<1, 2>>, <<3>>, <<4>> >>

----------------------------------------------------------------------------
(* Properties of the executor.                                             *)

ExecIds == {ex_tasks[i].task_id : i \in DOMAIN ex_tasks}

\* the tasks of the level in execution that have started
Started == DOMAIN running \cup DOMAIN results

\* execute_level has returned for the level level_id
LevelReturned ==
    /\ pc \in {"next_level", "done"}
    /\ Len(levels_left) < Len(SortedLevels(ex_tasks))

\* the outcome of the operation of a task on the input the store gives it
OperationOf(task) ==
    ApplyOperation(ResolveInput(task, current_results, data).value, task)

\* C5: no task has its input resolved, or starts, before every task named in
\* its depends_on has completed and has its result in the result store.
C5_DependenciesCompletedBeforeStart ==
    \A i \in DOMAIN task_args :
        \A d \in Range(task_args[i].task.depends_on) : d \in DOMAIN current_results

\* C6: levels are barriers: while a task of a level has started, the result
\* store holds the result of every task of every lower level and of no other
\* task, under every interleaving of the workers.
C6_LevelsAreBarriers ==
    \A i \in Started :
        DOMAIN current_results =
            {ex_tasks[j].task_id : j \in {k \in DOMAIN ex_tasks :
                                            ex_tasks[k].level < task_args[i].task.level}}

C6_Witness ==
    /\ pool = 2
    /\ Cardinality(DOMAIN running) = 2
    /\ level_id = 1
    /\ current_results # EmptyDict

\* C7: when execute_level returns, every task of the level has a result; the
\* result of a task whose operation failed is an error marker, and the result
\* of every other task is the value of its own operation on its own input,
\* whatever its siblings did.
C7_FailureLeavesSiblingsAlone ==
    LevelReturned =>
        \A i \in DOMAIN ex_tasks :
            ex_tasks[i].level = level_id =>
                /\ ex_tasks[i].task_id \in DOMAIN current_results
                /\ LET out == OperationOf(ex_tasks[i])
                       got == current_results[ex_tasks[i].task_id]
                   IN IF out.raised
                      THEN IsErrorMarker(got) /\ got.text = <<"Error: ", out.exc>>
                      ELSE got = out.value

C7_Witness ==
    /\ LevelReturned
    /\ \E i, j \in DOMAIN ex_tasks :
          /\ ex_tasks[i].level = level_id /\ ex_tasks[j].level = level_id
          /\ OperationOf(ex_tasks[i]).raised
          /\ ~OperationOf(ex_tasks[j]).raised
          /\ IsErrorMarker(current_results[ex_tasks[i].task_id])
          /\ current_results[ex_tasks[j].task_id].kind = "DataFrame"

\* C8: no exception escapes execute_level, whatever the level tasks and the
\* content of the result store.
C8_NoExceptionEscapesLevel == ~(pc = "raised" /\ exception = "KeyError")

\* C9: a task whose input is the error marker of a dependency ends with an
\* error-valued result, whatever its operation.
C9_PoisonForward ==
    \A i \in DOMAIN results :
        (task_args[i].task.depends_on # << >> /\ IsErrorMarker(task_args[i].input_data))
            => IsErrorMarker(results[i].result)

\* C10: execute_plan always returns a report, and the report's all_results,
\* execution_times and task_process_map hold one entry per submitted task id,
\* and total_tasks is the number of submitted tasks.
C10_AlwaysReturnsReport ==
    /\ pc # "raised"
    /\ pc = "done" =>
          /\ DOMAIN report.all_results = ExecIds
          /\ DOMAIN report.execution_times = ExecIds
          /\ DOMAIN report.task_process_map = ExecIds
          /\ report.total_tasks = Len(ex_tasks)

\* the depends_on of the i-th task of the level in preparation, and the stored
\* results of the tasks it names
DependsOn(i) == task_args[i].task.depends_on

AllStored(i) == Range(DependsOn(i)) \subseteq DOMAIN current_results

IsRowTable(v) == v.kind = "DataFrame" /\ v.form = "rows"

\* C11: a task with more than one dependency whose results are all tables
\* is handed the intersection of the rows of all those results.
C11_MergedInputIsRowIntersection ==
    \A i \in DOMAIN task_args :
        (/\ Len(DependsOn(i)) > 1
         /\ AllStored(i)
         /\ \A d \in Range(DependsOn(i)) : IsRowTable(current_results[d]))
        => task_args[i].input_data =
              DataFrame({r \in Rows : \A d \in Range(DependsOn(i)) :
                                          r \in current_results[d].rows}, "rows")

\* C12: a task with more than one dependency whose results are all error
\* markers is handed one error that holds the message of every dependency.
C12_AllErrorsCombined ==
    \A i \in DOMAIN task_args :
        (/\ Len(DependsOn(i)) > 1
         /\ AllStored(i)
         /\ \A d \in Range(DependsOn(i)) : IsErrorMarker(current_results[d]))
        => /\ IsErrorMarker(task_args[i].input_data)
           /\ \A d \in Range(DependsOn(i)) :
                 current_results[d].text[2] \in Range(task_args[i].input_data.text)

\* C13: a task with more than one dependency whose results mix successes and
\* error markers is handed the result of the first dependency, in depends_on
\* order, that is not an error marker.
C13_FirstNonErrorPreferred ==
    \A i \in DOMAIN task_args :
        (/\ Len(DependsOn(i)) > 1
         /\ AllStored(i)
         /\ \E d \in Range(DependsOn(i)) : IsErrorMarker(current_results[d])
         /\ \E d \in Range(DependsOn(i)) : ~IsErrorMarker(current_results[d]))
        => LET first == CHOOSE k \in DOMAIN DependsOn(i) :
                            /\ ~IsErrorMarker(current_results[DependsOn(i)[k]])
                            /\ \A j \in 1..(k - 1) :
                                  IsErrorMarker(current_results[DependsOn(i)[j]])
           IN task_args[i].input_data = current_results[DependsOn(i)[first]]

\* C14: a task with exactly one dependency is handed that dependency's stored
\* result unchanged, and a task with an empty depends_on is handed the source
\* data of the executor, in whatever level it is.
C14_SingleDependencyPassedThrough ==
    \A i \in DOMAIN task_args :
        /\ Len(DependsOn(i)) = 1 =>
              /\ DependsOn(i)[1] \in DOMAIN current_results
              /\ task_args[i].input_data = current_results[DependsOn(i)[1]]
        /\ DependsOn(i) = << >> =>
              /\ data = DataFrame(Rows, "rows")
              /\ task_args[i].input_data = data

C14_Witness ==
    /\ level_id = 1
    /\ \E i, j \in DOMAIN task_args :
          /\ DependsOn(i) = << >>
          /\ Len(DependsOn(j)) = 1
          /\ task_args[j].input_data # data
          /\ task_args[j].input_data.kind = "DataFrame"

\* the tasks of the level level_id
LevelIds == {ex_tasks[i].task_id : i \in {k \in DOMAIN ex_tasks :
                                                 ex_tasks[k].level = level_id}}

\* C15: a level of n > 1 tasks runs in a pool of exactly min(p, n) workers
\* for the configured size p: never more than min(p, n) of its tasks run at
\* the same moment, and when the level returns every one of the n tasks has
\* been executed.
C15_PoolBoundsRunningTasks ==
    /\ (pc = "executing" /\ Len(task_args) > 1) =>
          /\ pool = Min2(num_processes, Len(task_args))
          /\ Cardinality(DOMAIN running) <= Min2(num_processes, Len(task_args))
    /\ (LevelReturned /\ Cardinality(LevelIds) > 1) =>
          /\ LevelIds \subseteq DOMAIN current_results
          /\ LevelIds \subseteq DOMAIN execution_times
          /\ LevelIds \subseteq DOMAIN task_process_map

C15_Witness ==
    /\ pc = "executing"
    /\ num_processes = MaxProcesses
    /\ Len(task_args) = 2
    /\ Cardinality(DOMAIN running) = 2

\* C16: a level of exactly one task opens no pool, for every configured pool
\* size: the task runs in the calling context, alone, as process 0.
C16_SingleTaskRunsInCaller ==
    /\ pc = "open_pool" => Len(task_args) > 1
    /\ (pc = "executing" /\ Len(task_args) = 1) =>
          /\ pool = 0
          /\ \A i \in DOMAIN results : results[i].process_id = 0

C16_Witness ==
    /\ pc = "executing"
    /\ num_processes = MaxProcesses
    /\ Len(task_args) = 1
    /\ DOMAIN results = {1}
    /\ pool = 0

\* The run of a task list one task at a time: the levels in ascending order,
\* the tasks of a level in list order, each on the input the store gives it.
RECURSIVE SequentialRun(_, _, _)
SequentialRun(ts, levels, store) ==
    IF levels = << >> THEN [raised |-> FALSE, store |-> store]
    ELSE LET level_tasks == LevelTasks(ts, Head(levels))
             ids == {level_tasks[i].task_id : i \in DOMAIN level_tasks}
             level_results ==
                 [id \in ids |->
                     LET task == TaskOf(level_tasks, id)
                     IN WorkerResult(ApplyOperation(
                            ResolveInput(task, store, DataFrame(Rows, "rows")).value, task))]
         IN IF \E i \in DOMAIN level_tasks :
                   ResolveInput(level_tasks[i], store, DataFrame(Rows, "rows")).raised
            THEN [raised |-> TRUE, store |-> store]
            ELSE SequentialRun(ts, Tail(levels), Update(store, level_results))

SequentialOutcome == SequentialRun(ex_tasks, SortedSeq({ex_tasks[i].level : i \in DOMAIN ex_tasks}), EmptyDict)

\* the ids of the tasks of the highest level
LastLevelIds ==
    {ex_tasks[i].task_id : i \in {k \in DOMAIN ex_tasks :
                                    \A j \in DOMAIN ex_tasks : ex_tasks[j].level <= ex_tasks[k].level}}

SequentialFinal ==
    LET last == [id \in LastLevelIds |-> SequentialOutcome.store[id]]
    IN IF Cardinality(LastLevelIds) = 1
       THEN last[CHOOSE id \in LastLevelIds : TRUE] ELSE last

\* C17: the content of a run is a function of the task list and the source
\* data alone: under every interleaving of the workers, a run that returns
\* has the all_results, final_results and final_result of the one-task-at-a-
\* time run, and a run ends with a KeyError only when that run does.
C17_RunsAreDeterministic ==
    /\ pc = "done" =>
          /\ ~SequentialOutcome.raised
          /\ report.all_results = SequentialOutcome.store
          /\ report.final_results = [id \in LastLevelIds |-> SequentialOutcome.store[id]]
          /\ report.final_result = SequentialFinal
    /\ (pc = "raised" /\ exception = "KeyError") => SequentialOutcome.raised

\* a returned run in which a task ran while another one started or finished
C17_Witness ==
    /\ pc = "done"
    /\ num_processes > 1
    /\ \E id \in DOMAIN report.execution_times : report.execution_times[id] > 1
    /\ \E id \in DOMAIN report.all_results : report.all_results[id].rows # Rows
    /\ \E id \in DOMAIN report.all_results : IsErrorMarker(report.all_results[id])

\* C18: a run with a pool size N > 1 returns the final result content of the
\* run of the same task list with pool size 1.
C18_ParallelEqualsSequential ==
    (pc = "done" /\ num_processes > 1) => report.final_result = SequentialFinal

C18_Witness ==
    /\ pc = "done"
    /\ num_processes > 1
    /\ Cardinality(LastLevelIds) = 2
    /\ level_id = 1
    /\ \E id \in LastLevelIds :
          /\ report.final_result[id].kind = "DataFrame"
          /\ report.final_result[id].rows \notin {Rows, Rows \ {id}}
    /\ \E id \in LastLevelIds : report.execution_times[id] > 1

\* execute_plan has returned its report
ReportReturned == pc \in {"done", "reported"}

\* C19: final_results holds the results of the tasks of the highest level and
\* of no other task; final_result is that single value when the level has one
\* task and the whole map when it has more.
C19_FinalResultsAreLastLevel ==
    ReportReturned =>
        /\ DOMAIN report.final_results = LastLevelIds
        /\ \A id \in LastLevelIds : report.final_results[id] = report.all_results[id]
        /\ Cardinality(LastLevelIds) = 1 =>
              \A id \in LastLevelIds : report.final_result = report.all_results[id]
        /\ Cardinality(LastLevelIds) > 1 => report.final_result = report.final_results

C19_Witness ==
    /\ ReportReturned
    /\ Len(ex_tasks) = 3
    /\ Cardinality(LastLevelIds) = 2
    /\ DOMAIN report.all_results # LastLevelIds
    /\ DOMAIN report.final_result = LastLevelIds

C23_ResultsWrittenOnce ==
    /\ [](/\ \A id \in DOMAIN invocations : invocations[id] = 1
          /\ \A id \in DOMAIN current_results : Invoked(invocations, id) = 1
          /\ pc = "executing" => LevelIds \cap DOMAIN current_results = {}
          /\ ReportReturned => DOMAIN invocations = ExecIds)
    /\ [][pc # "idle" =>
            \A id \in DOMAIN current_results :
                /\ id \in DOMAIN current_results'
                /\ current_results'[id] = current_results[id]]_vars

C23_Witness ==
    /\ ReportReturned
    /\ Len(ex_tasks) = 3
    /\ Cardinality(LastLevelIds) = 1
    /\ level_id = 1
    /\ \A id \in ExecIds : Invoked(invocations, id) = 1
    /\ DOMAIN current_results = ExecIds

\* C27: a pool exists only while a level of several tasks is in execution:
\* none is open before a level, between two levels, after execute_plan has
\* returned or raised, or for a level of one task.
C27_PoolScopedToLevel ==
    /\ pool > 0 => (pc = "executing" /\ Len(task_args) > 1)
    /\ pc \in {"idle", "next_level", "open_pool", "done", "reported", "raised"} => pool = 0

C27_Witness ==
    /\ pc = "next_level"
    /\ levels_left # << >>
    /\ LevelReturned
    /\ Cardinality(LevelIds) > 1
    /\ pool = 0

\* the levels of the task list of the current call
ExecLevels == {ex_tasks[i].level : i \in DOMAIN ex_tasks}

\* C21: after any sequence of execute_plan calls on one executor, the
\* execution_times, task_process_map and level_times of the report of the
\* latest call hold entries for the tasks and levels of that call only.
C21_ReportHoldsThisCallOnly ==
    ReportReturned =>
        /\ DOMAIN report.execution_times \subseteq ExecIds
        /\ DOMAIN report.task_process_map \subseteq ExecIds
        /\ DOMAIN report.level_times \subseteq ExecLevels

\* C22: a report that execute_plan has returned is never changed by a later
\* execute_plan call on the same executor.
C22_ReturnedReportNeverMutated ==
    [][\A k \in DOMAIN returned :
          k \in DOMAIN returned' /\ returned'[k] = returned[k]]_vars

\* C30: after any sequence of execute_plan calls self.data is the data given
\* at construction, and every task with an empty depends_on was handed that
\* data, unmodified.
C30_SourceDataReadOnly ==
    /\ data = DataFrame(Rows, "rows")
    /\ \A i \in DOMAIN task_args :
          task_args[i].task.depends_on = << >> =>
              task_args[i].input_data = DataFrame(Rows, "rows")

\* the second call at work, after a first call that ran a filter alone
C30_Witness ==
    /\ Len(returned) = 1
    /\ returned[1].total_tasks = 1
    /\ returned[1].final_result.rows # Rows
    /\ pc = "executing"
    /\ pool = 0
    /\ DOMAIN results = {1}
    /\ results[1].result.rows # Rows

\* the tasks of the levels below the level in execution
LowerLevelIds == {ex_tasks[i].task_id : i \in {k \in DOMAIN ex_tasks :
                                                    ex_tasks[k].level < level_id}}

\* C29: when every operation invocation terminates and the workers are
\* scheduled fairly, every execute_plan run ends by returning its report;
\* and a task of a level starts only when every task of every lower level
\* has completed, so a task that never completes keeps the later levels
\* from starting.
C29_EveryRunReturnsItsReport ==
    /\ <>ReportReturned
    /\ [](Started # {} => LowerLevelIds \subseteq DOMAIN current_results)

\* the executor has not been used: no execute_plan call, no task operation,
\* no pool, nothing stored or timed, the source data as given
ExecutorUntouched ==
    /\ pc = "idle" /\ exception = "none"
    /\ invocations = EmptyDict /\ running = EmptyDict /\ results = EmptyDict
    /\ pool = 0
    /\ current_results = EmptyDict
    /\ execution_times = EmptyDict /\ task_process_map = EmptyDict
    /\ level_times = EmptyDict
    /\ total_start = 0 /\ clock = 0
    /\ report = << >>
    /\ data = DataFrame(Rows, "rows")

C34_DecomposedListExecutes ==
    ex_tasks # << >> =>
        /\ \A i, j \in DOMAIN ex_tasks :
              ex_tasks[i].task_id = ex_tasks[j].task_id => i = j
        /\ \A i \in DOMAIN ex_tasks : \A d \in Range(ex_tasks[i].depends_on) :
              \E j \in DOMAIN ex_tasks :
                  ex_tasks[j].task_id = d /\ ex_tasks[j].level < ex_tasks[i].level
        /\ pc # "raised" /\ exception = "none"
        /\ \A i \in DOMAIN task_args :
              Range(task_args[i].task.depends_on) \subseteq DOMAIN current_results

\* two filters, two group tasks behind them and an aggregation behind those,
\* executed to the report
C34_Witness ==
    /\ Len(ex_tasks) = 5
    /\ ex_tasks[5].depends_on = <<3, 4>>
    /\ ex_tasks[3].depends_on = <<1, 2>>
    /\ pc = "done"
    /\ DOMAIN report.level_times = {0, 1, 2}
    /\ DOMAIN report.all_results = 1..5

KnownOperations == {"filter", "group", "aggregate", "fetch"}

\* C37: for a task whose operation is none of filter, group, aggregate and
\* fetch, worker_execute_task returns the input of the task unchanged as the
\* result, with the id of the task, a duration and the slot index of the
\* tuple it was given; no error marker is made for it.
C37_UnknownOperationPassesInput ==
    \A i \in DOMAIN results :
        task_args[i].task.operation \notin KnownOperations =>
            /\ results[i].result = task_args[i].input_data
            /\ results[i].task_id = task_args[i].task.task_id
            /\ results[i].process_id = task_args[i].idx
            /\ results[i].execution_time \in Nat
            /\ IsErrorMarker(results[i].result) => IsErrorMarker(task_args[i].input_data)

\* a task of an unknown operation behind a filter returns the filtered
\* table it was given
C37_Witness ==
    \E i \in DOMAIN results :
        /\ task_args[i].task.operation \notin KnownOperations
        /\ task_args[i].task.depends_on # << >>
        /\ results[i].result.kind = "DataFrame"
        /\ results[i].result.rows # Rows
        /\ results[i].execution_time >= 1

\* C38: aggregate_and_format returns a response of status 'success' for
\* every report of execute_plan; a final result that is an error marker is
\* formatted as a result of type 'other' whose value is the text of the
\* marker, and the call returns for it as for any other.
C38_AggregatorAlwaysSucceeds ==
    /\ aggregated_result # << >> =>
          /\ aggregated_result.status = "success"
          /\ (~IsDict(report) /\ IsErrorMarker(report.final_result)) =>
                /\ aggregated_result.result.type = "other"
                /\ aggregated_result.result.value = report.final_result
    /\ (ReportReturned /\ aggregated_result = << >>) =>
          aggregate_and_format(report).status = "success"

\* the report of a run whose only final task failed, aggregated
C38_Witness ==
    /\ ReportReturned
    /\ ~IsDict(report)
    /\ IsErrorMarker(report.final_result)
    /\ aggregated_result # << >>
    /\ aggregated_result.status = "success"
    /\ aggregated_result.result.type = "other"

====
